---- MODULE Spec2Model ----
(***************************************************************************)
(* Model of lib/ansible/modules/network/f5/bigip_pool_member.py: one       *)
(* invocation of main() reconciles a single pool member (pool, address,    *)
(* port) of a BIG-IP against the desired input.  Every remote call of      *)
(* main() is one step; the BIG-IP is a record of the state the calls read  *)
(* and write.  An invocation may be followed by another one with the same  *)
(* input (a playbook run again).                                           *)
(***************************************************************************)
EXTENDS Integers, Sequences, FiniteSets, TLC

\* ---------------------------------------------------------------- bounds
\* scalar attribute values range over 0..MaxVal
MaxVal == 1
\* at most MaxSupplied of the seven optional attributes are supplied
MaxSupplied == 2
\* invocations made one after the other with the same input
MaxRuns == 3

\* ------------------------------------------------------- python's None
None == <<>>
Some(v) == <<v>>
Val(o) == o[1]

\* ------------------------------------------------------------ attributes
ScalarAttrs == {"connection_limit", "description", "rate_limit", "ratio", "priority_group"}
StateAttrs == {"session_state", "monitor_state"}
Attrs == ScalarAttrs \cup StateAttrs

\* priority_group handled with the other integers, before the two states
AttrOrder_PriorityFirst ==
    << "connection_limit", "description", "rate_limit", "ratio",
       "priority_group", "session_state", "monitor_state" >>

\* the order in which main() handles the attributes, on creation and on update
AttrOrder ==
    << "connection_limit", "description", "rate_limit", "ratio",
       "session_state", "monitor_state", "priority_group" >>

Intents == {"enabled", "disabled"}

SessionStatuses ==
    {"SESSION_STATUS_ENABLED", "SESSION_STATUS_DISABLED", "SESSION_STATUS_FORCED_DISABLED"}
MonitorStatuses ==
    {"MONITOR_STATUS_UP", "MONITOR_STATUS_DOWN", "MONITOR_STATUS_FORCED_DOWN"}

\* the upper limit of a port
PortMax == 65535

VARIABLES
    input,       \* module.params: the desired state, the same in every run
    check_mode,  \* module.check_mode of this run
    remote,      \* the BIG-IP: pool, member, node and the member's attributes
    remote0,     \* the BIG-IP as it was when this run started
    session,     \* TRUE once bigip_api() has opened the session
    pc,          \* the statement of main() this run is at
    idx,         \* position in AttrOrder of the attribute being handled
    result,      \* main()'s result dict
    msg,         \* fail_json's message kind, None while not failed
    calls,       \* the remote calls this run has issued, in order
    run,         \* number of this run, 1..MaxRuns
    prev         \* summaries of the completed earlier runs

vars == << input, check_mode, remote, remote0, session, pc, idx, result, msg, calls, run, prev >>

\* --------------------------------------------------------------- replies
\* What a call of the iControl API comes back with: "ok", or the text of a
\* bigsuds.OperationFailed that main()'s helpers look for, or any other error.
NotFoundMsg == "was not found"
ReferencedMsg == "is referenced by a member of pool"
OtherMsg == "other"

\* values a new member has before any attribute is set
DefaultAttrs ==
    [ connection_limit |-> 0, description |-> 0, rate_limit |-> 0, ratio |-> 1,
      priority_group |-> 0,
      session_state |-> "SESSION_STATUS_ENABLED",
      monitor_state |-> "MONITOR_STATUS_UP" ]

\* LocalLB.Pool.get_object_status
GetPoolStatusReply(r, fault) ==
    IF fault THEN OtherMsg ELSE IF r.pool THEN "ok" ELSE NotFoundMsg

\* LocalLB.Pool.get_member_object_status
GetMemberStatusReply(r, fault) ==
    IF fault THEN OtherMsg ELSE IF r.pool /\ r.member THEN "ok" ELSE NotFoundMsg

\* LocalLB.NodeAddressV2.delete_node_address: refused while a member of
\* another pool uses the node
DeleteNodeReply(r, fault) ==
    IF fault THEN OtherMsg ELSE IF r.node_refs THEN ReferencedMsg ELSE "ok"

\* any other call on an existing member
MemberCallReply(r, fault) ==
    IF fault THEN OtherMsg ELSE IF r.member THEN "ok" ELSE NotFoundMsg

\* the session status the BIG-IP shows after set_member_session_enabled_state
SessionStatusAfter(token) ==
    IF token = "STATE_ENABLED" THEN "SESSION_STATUS_ENABLED"
    ELSE "SESSION_STATUS_FORCED_DISABLED"

\* the monitor status the BIG-IP shows after set_member_monitor_state
MonitorStatusAfter(token) ==
    IF token = "STATE_ENABLED" THEN "MONITOR_STATUS_UP"
    ELSE "MONITOR_STATUS_FORCED_DOWN"

\* ------------------------------------------------------ main()'s helpers
\* A helper that catches OperationFailed returns [raised, value].
Returned(v) == [raised |-> FALSE, value |-> v]
Raised == [raised |-> TRUE, value |-> FALSE]

\* a result that starts out True and is never set on "was not found"
pool_exists_DefaultTrue(reply) ==
    IF reply = "ok" \/ reply = NotFoundMsg THEN Returned(TRUE) ELSE Raised

pool_exists(reply) ==
    IF reply = "ok" THEN Returned(TRUE)
    ELSE IF reply = NotFoundMsg THEN Returned(FALSE)
    ELSE Raised

\* a result that starts out True and is never set on "was not found"
member_exists_DefaultTrue(reply) ==
    IF reply = "ok" \/ reply = NotFoundMsg THEN Returned(TRUE) ELSE Raised

\* no except clause: every OperationFailed propagates
member_exists_NoCatch(reply) ==
    IF reply = "ok" THEN Returned(TRUE) ELSE Raised

member_exists(reply) ==
    IF reply = "ok" THEN Returned(TRUE)
    ELSE IF reply = NotFoundMsg THEN Returned(FALSE)
    ELSE Raised

\* no except clause: every OperationFailed propagates
delete_node_address_NoCatch(reply) ==
    IF reply = "ok" THEN Returned(TRUE) ELSE Raised

\* a result that starts out True and is never set on "is referenced"
delete_node_address_DefaultTrue(reply) ==
    IF reply = "ok" \/ reply = ReferencedMsg THEN Returned(TRUE) ELSE Raised

delete_node_address(reply) ==
    IF reply = "ok" THEN Returned(TRUE)
    ELSE IF reply = ReferencedMsg THEN Returned(FALSE)
    ELSE Raised

\* the BIG-IP after LocalLB.Pool.remove_member_v2
remove_pool_member(r) ==
    [r EXCEPT !.member = FALSE, !.attrs = DefaultAttrs]

\* the BIG-IP after LocalLB.Pool.add_member_v2: the node comes with the member
add_pool_member(r) ==
    [r EXCEPT !.member = TRUE, !.node = TRUE, !.attrs = DefaultAttrs]

get_connection_limit(r) == r.attrs.connection_limit
set_connection_limit(r, limit) == [r EXCEPT !.attrs.connection_limit = limit]

get_description(r) == r.attrs.description
set_description(r, description) == [r EXCEPT !.attrs.description = description]

get_rate_limit(r) == r.attrs.rate_limit
\* the body of set_connection_limit pasted into set_rate_limit
set_rate_limit_Pasted(r, limit) == [r EXCEPT !.attrs.connection_limit = limit]
set_rate_limit(r, limit) == [r EXCEPT !.attrs.rate_limit = limit]

\* the body of get_rate_limit pasted into get_ratio
get_ratio_Pasted(r) == r.attrs.rate_limit
get_ratio(r) == r.attrs.ratio
set_ratio(r, ratio) == [r EXCEPT !.attrs.ratio = ratio]

get_priority_group(r) == r.attrs.priority_group
set_priority_group(r, priority_group) == [r EXCEPT !.attrs.priority_group = priority_group]

\* "STATE_%s" % state.strip().upper()
StateToken(state) ==
    IF state = "enabled" THEN "STATE_ENABLED" ELSE "STATE_DISABLED"

\* result.split("SESSION_STATUS_")[-1].lower()
SessionStatusName(status) ==
    CASE status = "SESSION_STATUS_ENABLED" -> "enabled"
      [] status = "SESSION_STATUS_DISABLED" -> "disabled"
      [] status = "SESSION_STATUS_FORCED_DISABLED" -> "forced_disabled"

\* result.split("MONITOR_STATUS_")[-1].lower()
MonitorStatusName(status) ==
    CASE status = "MONITOR_STATUS_UP" -> "up"
      [] status = "MONITOR_STATUS_DOWN" -> "down"
      [] status = "MONITOR_STATUS_FORCED_DOWN" -> "forced_down"

set_member_session_enabled_state(r, session_state) ==
    [r EXCEPT !.attrs.session_state = SessionStatusAfter(StateToken(session_state))]

get_member_session_status(r) == SessionStatusName(r.attrs.session_state)

set_member_monitor_state(r, monitor_state) ==
    [r EXCEPT !.attrs.monitor_state = MonitorStatusAfter(StateToken(monitor_state))]

get_member_monitor_status(r) == MonitorStatusName(r.attrs.monitor_state)

\* the get_* helper main() calls for attribute a
GetAttr(a, r) ==
    CASE a = "connection_limit" -> get_connection_limit(r)
      [] a = "description" -> get_description(r)
      [] a = "rate_limit" -> get_rate_limit(r)
      [] a = "ratio" -> get_ratio(r)
      [] a = "session_state" -> get_member_session_status(r)
      [] a = "monitor_state" -> get_member_monitor_status(r)
      [] a = "priority_group" -> get_priority_group(r)

\* the set_* helper main() calls for attribute a
SetAttr(a, r, v) ==
    CASE a = "connection_limit" -> set_connection_limit(r, v)
      [] a = "description" -> set_description(r, v)
      [] a = "rate_limit" -> set_rate_limit(r, v)
      [] a = "ratio" -> set_ratio(r, v)
      [] a = "session_state" -> set_member_session_enabled_state(r, v)
      [] a = "monitor_state" -> set_member_monitor_state(r, v)
      [] a = "priority_group" -> set_priority_group(r, v)

\* the desired word compared with the status read, without the sentinel
session_differs_Naive(session_state, session_status) ==
    session_state # session_status

\* the elif branch alone: a forced-disabled member is never enabled again
session_differs_DisableOnly(session_state, session_status) ==
    session_state = "disabled" /\ session_status # "forced_disabled"

\* lines 505 and 509: the condition under which main() writes the session state
session_differs(session_state, session_status) ==
    \/ session_state = "enabled" /\ session_status = "forced_disabled"
    \/ session_state = "disabled" /\ session_status # "forced_disabled"

\* the desired word compared with the status read, without the sentinel
monitor_differs_Naive(monitor_state, monitor_status) ==
    monitor_state # monitor_status

\* lines 515 and 519: the condition under which main() writes the monitor state
monitor_differs(monitor_state, monitor_status) ==
    \/ monitor_state = "enabled" /\ monitor_status = "forced_down"
    \/ monitor_state = "disabled" /\ monitor_status # "forced_down"

\* the condition under which main() writes attribute a on the update path,
\* given the desired value and the value read
Differs(a, desired, live) ==
    CASE a = "session_state" -> session_differs(desired, live)
      [] a = "monitor_state" -> monitor_differs(desired, live)
      [] OTHER -> desired # live

\* "if <param>:", which passes over a number that is 0
Supplied_Truthy(a) == input[a] # None /\ (a \in ScalarAttrs => Val(input[a]) # 0)

\* "<param> is not None"
Supplied(a) == input[a] # None

\* the first supplied attribute at or after position i of AttrOrder,
\* Len(AttrOrder) + 1 when there is none
RECURSIVE NextSupplied(_)
NextSupplied(i) ==
    IF i > Len(AttrOrder) THEN i
    ELSE IF Supplied(AttrOrder[i]) THEN i
    ELSE NextSupplied(i + 1)

\* ----------------------------------------------------------------- steps
NoResult == [k \in {} |-> FALSE]
Changed(b) == [changed |-> b]

\* '/%s/%s' % (partition, value)
fqdn_name(partition, value) == << partition, value >>

\* lines 431, 438 and 439
pool == fqdn_name(input.partition, input.pool)
address == fqdn_name(input.partition, Val(input.host))
port == Val(input.port)

\* the node deletion keyed by the pool's name: nodes=[pool]
CallKey_NodeByPool(op) ==
    CASE op = "GetPoolStatus" -> [pool |-> Some(pool), address |-> None, port |-> None]
      [] op = "DeleteNodeAddress" -> [pool |-> None, address |-> Some(pool), port |-> None]
      [] OTHER -> [pool |-> Some(pool), address |-> Some(address), port |-> Some(port)]

\* what a call is keyed by: pool_names=[pool] for the pool probe, nodes=[address]
\* for the node deletion, pool_names=[pool] and
\* members=[{'address': address, 'port': port}] for every other call
CallKey(op) ==
    CASE op = "GetPoolStatus" -> [pool |-> Some(pool), address |-> None, port |-> None]
      [] op = "DeleteNodeAddress" -> [pool |-> None, address |-> Some(address), port |-> None]
      [] OTHER -> [pool |-> Some(pool), address |-> Some(address), port |-> Some(port)]

Call(op, attr, reply) ==
    calls' = Append(calls, [op |-> op, attr |-> attr, reply |-> reply, key |-> CallKey(op)])

\* module.fail_json(msg=...): the invocation ends here.  fail_json leaves by
\* SystemExit, which the "except Exception" of line 528 does not catch.
fail_json(kind) ==
    /\ pc' = "failed"
    /\ msg' = Some(kind)

MsgHostPort == "both host and port must be supplied"
MsgPortRange == "valid ports must be in range 0 - 65535"
MsgNoPool == "pool does not exist"
\* "received exception: %s" % e
MsgException(e) ==
    CASE e = OtherMsg -> "received exception: other"
      [] e = NotFoundMsg -> "received exception: was not found"
      [] e = ReferencedMsg -> "received exception: is referenced by a member of pool"

\* python truth of a string parameter
Truthy(o) == o # None /\ Val(o) # ""

\* the upper limit alone
port_in_range_NoLower(p) == ~(p > PortMax)

\* line 445, negated
port_in_range(p) == ~(0 > p \/ p > PortMax)

\* check mode not honoured
module_check_mode_Ignored == FALSE

\* module.check_mode
module_check_mode == check_mode

\* lines 442-446: the checks made before the try block.  With neither host
\* nor port the first check passes and 0 > None is true in python 2 and a
\* TypeError in python 3.
Validate ==
    /\ pc = "validate"
    /\ IF \/ Truthy(input.host) /\ input.port = None
          \/ input.port # None /\ ~Truthy(input.host)
       THEN fail_json(MsgHostPort)
       ELSE IF input.port = None
       THEN \E m \in {MsgPortRange, "TypeError"} : fail_json(m)
       ELSE IF ~port_in_range(Val(input.port))
       THEN fail_json(MsgPortRange)
       ELSE pc' = "bigip_api" /\ msg' = msg
    /\ UNCHANGED << input, check_mode, remote, remote0, session, idx, result, calls, run, prev >>

\* line 449: api = bigip_api(...)
OpenSession ==
    /\ pc = "bigip_api"
    /\ \E fault \in BOOLEAN :
         IF fault
         THEN fail_json(MsgException(OtherMsg)) /\ session' = session
         ELSE pc' = "pool_exists" /\ session' = TRUE /\ msg' = msg
    /\ UNCHANGED << input, check_mode, remote, remote0, idx, result, calls, run, prev >>

\* the pool probed and its answer not looked at
ProbePool_Unchecked ==
    /\ pc = "pool_exists"
    /\ \E fault \in BOOLEAN :
         LET reply == GetPoolStatusReply(remote, fault)
             out == pool_exists(reply)
         IN /\ Call("GetPoolStatus", "-", reply)
            /\ IF out.raised
               THEN fail_json(MsgException(reply)) /\ result' = result
               ELSE pc' = "member_exists" /\ result' = Changed(FALSE) /\ msg' = msg
    /\ UNCHANGED << input, check_mode, remote, remote0, session, idx, run, prev >>

\* lines 450-452
ProbePool ==
    /\ pc = "pool_exists"
    /\ \E fault \in BOOLEAN :
         LET reply == GetPoolStatusReply(remote, fault)
             out == pool_exists(reply)
         IN /\ Call("GetPoolStatus", "-", reply)
            /\ IF out.raised
               THEN fail_json(MsgException(reply)) /\ result' = result
               ELSE IF ~out.value
               THEN fail_json(MsgNoPool) /\ result' = result
               ELSE pc' = "member_exists" /\ result' = Changed(FALSE) /\ msg' = msg
    /\ UNCHANGED << input, check_mode, remote, remote0, session, idx, run, prev >>

\* where main() goes once attribute idx - 1 is dealt with, on the creation
\* path (line 484 follows the last write) and on the update path
AfterCreate(i) ==
    IF i > Len(AttrOrder)
    THEN pc' = "exit_json" /\ result' = Changed(TRUE)
    ELSE pc' = "create_set" /\ result' = result

AfterUpdate(i, res) ==
    /\ result' = res
    /\ pc' = IF i > Len(AttrOrder) THEN "exit_json" ELSE "update_get"

\* lines 455-456, 463-464 (absent) and 467-468, 484-486 (present)
ProbeMember ==
    /\ pc = "member_exists"
    /\ \E fault \in BOOLEAN :
         LET reply == GetMemberStatusReply(remote, fault)
             out == member_exists(reply)
         IN /\ Call("GetMemberStatus", "-", reply)
            /\ IF out.raised
               THEN fail_json(MsgException(reply)) /\ UNCHANGED << result, idx >>
               ELSE /\ msg' = msg
                    /\ IF input.state = "absent"
                       THEN /\ idx' = idx
                            /\ IF out.value
                               THEN IF ~module_check_mode
                                    THEN pc' = "remove_pool_member" /\ result' = result
                                    ELSE pc' = "exit_json" /\ result' = Changed(TRUE)
                               ELSE pc' = "exit_json" /\ result' = result
                       ELSE IF ~out.value
                            THEN /\ idx' = idx
                                 /\ IF ~module_check_mode
                                    THEN pc' = "add_pool_member" /\ result' = result
                                    ELSE pc' = "exit_json" /\ result' = Changed(TRUE)
                            ELSE /\ idx' = NextSupplied(1)
                                 /\ AfterUpdate(idx', result)
    /\ UNCHANGED << input, check_mode, remote, remote0, session, run, prev >>

\* the removal with the test of preserve_node inverted
RemoveMember_Inverted ==
    /\ pc = "remove_pool_member"
    /\ \E fault \in BOOLEAN :
         LET reply == MemberCallReply(remote, fault)
         IN /\ Call("RemoveMember", "-", reply)
            /\ IF reply # "ok"
               THEN fail_json(MsgException(reply)) /\ UNCHANGED << remote, result >>
               ELSE /\ remote' = remove_pool_member(remote)
                    /\ msg' = msg
                    /\ IF ~input.preserve_node
                       THEN pc' = "exit_json" /\ result' = Changed(TRUE)
                       ELSE pc' = "delete_node_address" /\ result' = result
    /\ UNCHANGED << input, check_mode, remote0, session, idx, run, prev >>

\* lines 457-459
RemoveMember ==
    /\ pc = "remove_pool_member"
    /\ \E fault \in BOOLEAN :
         LET reply == MemberCallReply(remote, fault)
         IN /\ Call("RemoveMember", "-", reply)
            /\ IF reply # "ok"
               THEN fail_json(MsgException(reply)) /\ UNCHANGED << remote, result >>
               ELSE /\ remote' = remove_pool_member(remote)
                    /\ msg' = msg
                    /\ IF input.preserve_node
                       THEN pc' = "exit_json" /\ result' = Changed(TRUE)
                       ELSE pc' = "delete_node_address" /\ result' = result
    /\ UNCHANGED << input, check_mode, remote0, session, idx, run, prev >>

\* lines 461-462
DeleteNode ==
    /\ pc = "delete_node_address"
    /\ \E fault \in BOOLEAN :
         LET reply == DeleteNodeReply(remote, fault)
             deleted == delete_node_address(reply)
         IN /\ Call("DeleteNodeAddress", "-", reply)
            /\ IF deleted.raised
               THEN fail_json(MsgException(reply)) /\ UNCHANGED << remote, result >>
               ELSE /\ remote' = IF reply = "ok" THEN [remote EXCEPT !.node = FALSE] ELSE remote
                    /\ result' = [changed |-> TRUE, deleted |-> deleted.value]
                    /\ pc' = "exit_json"
                    /\ msg' = msg
    /\ UNCHANGED << input, check_mode, remote0, session, idx, run, prev >>

\* the addition tried again for as long as it fails
AddMember_Retry ==
    /\ pc = "add_pool_member"
    /\ \E fault \in BOOLEAN :
         LET reply == IF fault THEN OtherMsg ELSE "ok"
         IN /\ Call("AddMember", "-", reply)
            /\ IF reply # "ok"
               THEN UNCHANGED << pc, msg, remote, result, idx >>
               ELSE /\ remote' = add_pool_member(remote)
                    /\ msg' = msg
                    /\ idx' = NextSupplied(1)
                    /\ AfterCreate(idx')
    /\ UNCHANGED << input, check_mode, remote0, session, run, prev >>

\* line 469, then the first "is not None" test that holds among lines 470-482
AddMember ==
    /\ pc = "add_pool_member"
    /\ \E fault \in BOOLEAN :
         LET reply == IF fault THEN OtherMsg ELSE "ok"
         IN /\ Call("AddMember", "-", reply)
            /\ IF reply # "ok"
               THEN fail_json(MsgException(reply)) /\ UNCHANGED << remote, result, idx >>
               ELSE /\ remote' = add_pool_member(remote)
                    /\ msg' = msg
                    /\ idx' = NextSupplied(1)
                    /\ AfterCreate(idx')
    /\ UNCHANGED << input, check_mode, remote0, session, run, prev >>

\* lines 470-484: one unconditional write of a supplied attribute
CreateSet ==
    /\ pc = "create_set"
    /\ \E fault \in BOOLEAN :
         LET a == AttrOrder[idx]
             reply == MemberCallReply(remote, fault)
         IN /\ Call("Set", a, reply)
            /\ IF reply # "ok"
               THEN fail_json(MsgException(reply)) /\ UNCHANGED << remote, result, idx >>
               ELSE /\ remote' = SetAttr(a, remote, Val(input[a]))
                    /\ msg' = msg
                    /\ idx' = NextSupplied(idx + 1)
                    /\ AfterCreate(idx')
    /\ UNCHANGED << input, check_mode, remote0, session, run, prev >>

\* lines 487-526: the read and the comparison of one supplied attribute
UpdateGet ==
    /\ pc = "update_get"
    /\ \E fault \in BOOLEAN :
         LET a == AttrOrder[idx]
             reply == MemberCallReply(remote, fault)
         IN /\ Call("Get", a, reply)
            /\ IF reply # "ok"
               THEN fail_json(MsgException(reply)) /\ UNCHANGED << result, idx >>
               ELSE /\ msg' = msg
                    /\ IF Differs(a, Val(input[a]), GetAttr(a, remote))
                       THEN IF ~module_check_mode
                            THEN pc' = "update_set" /\ UNCHANGED << result, idx >>
                            ELSE /\ idx' = NextSupplied(idx + 1)
                                 /\ AfterUpdate(idx', Changed(TRUE))
                       ELSE /\ idx' = NextSupplied(idx + 1)
                            /\ AfterUpdate(idx', result)
    /\ UNCHANGED << input, check_mode, remote, remote0, session, run, prev >>

\* the write of an attribute inside a try block that passes on every error
UpdateSet_Swallow ==
    /\ pc = "update_set"
    /\ \E fault \in BOOLEAN :
         LET a == AttrOrder[idx]
             reply == MemberCallReply(remote, fault)
         IN /\ Call("Set", a, reply)
            /\ remote' = IF reply # "ok" THEN remote ELSE SetAttr(a, remote, Val(input[a]))
            /\ msg' = msg
            /\ idx' = NextSupplied(idx + 1)
            /\ AfterUpdate(idx', IF reply # "ok" THEN result ELSE Changed(TRUE))
    /\ UNCHANGED << input, check_mode, remote0, session, run, prev >>

\* lines 487-526: the write of an attribute found to differ
UpdateSet ==
    /\ pc = "update_set"
    /\ \E fault \in BOOLEAN :
         LET a == AttrOrder[idx]
             reply == MemberCallReply(remote, fault)
         IN /\ Call("Set", a, reply)
            /\ IF reply # "ok"
               THEN fail_json(MsgException(reply)) /\ UNCHANGED << remote, result, idx >>
               ELSE /\ remote' = SetAttr(a, remote, Val(input[a]))
                    /\ msg' = msg
                    /\ idx' = NextSupplied(idx + 1)
                    /\ AfterUpdate(idx', Changed(TRUE))
    /\ UNCHANGED << input, check_mode, remote0, session, run, prev >>

\* line 531: module.exit_json(**result)
ExitJson ==
    /\ pc = "exit_json"
    /\ pc' = "done"
    /\ UNCHANGED << input, check_mode, remote, remote0, session, idx, result, msg, calls, run, prev >>

\* The same task is run again: nothing is kept but the BIG-IP's state.  A
\* completed dry run is followed by the run for real.  A run that failed before
\* its first write left the BIG-IP as it found it: the run after it would repeat
\* a first run and is not followed.  A third run and the ones after it are
\* the recovery from a first run that failed after a write.
Rerun ==
    /\ pc \in {"done", "failed"}
    /\ run < MaxRuns
    /\ IF run = 1 THEN TRUE ELSE prev[1].pc = "failed"
    /\ \/ check_mode /\ pc = "done" /\ check_mode' = FALSE
       \/ ~check_mode /\ (pc = "done" \/ remote # remote0) /\ check_mode' \in BOOLEAN
    /\ prev' = Append(prev, [ check_mode |-> check_mode, pc |-> pc, result |-> result,
                              msg |-> msg, calls |-> calls, remote0 |-> remote0 ])
    /\ run' = run + 1
    /\ remote0' = remote
    /\ session' = FALSE
    /\ pc' = "validate"
    /\ idx' = 0
    /\ result' = NoResult
    /\ msg' = None
    /\ calls' = << >>
    /\ UNCHANGED << input, remote >>

\* Another client of the BIG-IP removes the member from the pool after main()
\* has probed for it.
Interfere ==
    /\ pc \in {"remove_pool_member", "create_set", "update_get", "update_set"}
    /\ remote.member
    /\ remote' = remove_pool_member(remote)
    /\ UNCHANGED << input, check_mode, remote0, session, pc, idx, result, msg, calls, run, prev >>

\* ------------------------------------------------------------------ Init
\* the optional attributes: each None or a value, at most MaxSupplied of them given
Desired ==
    { d \in { ds @@ dt :
                ds \in [ScalarAttrs -> {None} \cup {Some(v) : v \in 0..MaxVal}],
                dt \in [StateAttrs -> {None} \cup {Some(v) : v \in Intents}] } :
        Cardinality({a \in Attrs : d[a] # None}) <= MaxSupplied }

Params(state, host, port_, preserve_node, d) ==
    [ state |-> state, host |-> host, port |-> port_, preserve_node |-> preserve_node,
      pool |-> "pool1", partition |-> "Common",
      connection_limit |-> d["connection_limit"], description |-> d["description"],
      rate_limit |-> d["rate_limit"], ratio |-> d["ratio"],
      session_state |-> d["session_state"], monitor_state |-> d["monitor_state"],
      priority_group |-> d["priority_group"] ]

\* a well-formed member identity with every choice of the other parameters
MainInputs ==
    { Params(state, Some("h"), Some(80), preserve_node, d) :
        state \in {"present", "absent"}, preserve_node \in BOOLEAN, d \in Desired }

\* every choice of host and port, with no optional attribute
PortInputs ==
    { Params(state, host, port_, FALSE, [a \in Attrs |-> None]) :
        state \in {"present", "absent"},
        host \in {None, Some(""), Some("h")},
        port_ \in {None} \cup {Some(p) : p \in {-1, 0, PortMax, PortMax + 1, 70000}} }

Inputs == MainInputs \cup PortInputs

\* the attribute values of an existing member.  An attribute the caller
\* supplies, in a run that reads it (state=present), holds its default or the
\* desired value already, or any status for the two states; every other
\* attribute holds its default.
LiveAttrs(inp) ==
    { la \in { ls @@ lt :
                 ls \in [ScalarAttrs -> 0..MaxVal],
                 lt \in { [session_state |-> ss, monitor_state |-> ms] :
                            ss \in SessionStatuses, ms \in MonitorStatuses } } :
        \A a \in Attrs :
            /\ inp[a] = None \/ inp.state = "absent" => la[a] = DefaultAttrs[a]
            /\ a \in ScalarAttrs /\ inp[a] # None => la[a] \in {DefaultAttrs[a], Val(inp[a])} }

AsRecord(la) ==
    [ connection_limit |-> la["connection_limit"], description |-> la["description"],
      rate_limit |-> la["rate_limit"], ratio |-> la["ratio"],
      priority_group |-> la["priority_group"],
      session_state |-> la["session_state"], monitor_state |-> la["monitor_state"] ]

\* the states the BIG-IP may be in: no pool; a pool without the member; a pool
\* with the member.  node_refs: a member of another pool uses the node, which
\* only a removal (state=absent) can come to depend on.
NodeRefs(inp) == IF inp.state = "absent" THEN BOOLEAN ELSE {FALSE}

Remotes(inp) ==
    { [pool |-> FALSE, member |-> FALSE, node |-> FALSE, node_refs |-> FALSE,
       attrs |-> DefaultAttrs] }
    \cup
    { [pool |-> TRUE, member |-> FALSE, node |-> refs, node_refs |-> refs,
       attrs |-> DefaultAttrs] : refs \in NodeRefs(inp) }
    \cup
    { [pool |-> TRUE, member |-> TRUE, node |-> TRUE, node_refs |-> refs,
       attrs |-> AsRecord(la)] : refs \in NodeRefs(inp), la \in LiveAttrs(inp) }

Init ==
    /\ input \in Inputs
    /\ check_mode \in BOOLEAN
    /\ remote \in Remotes(input)
    /\ remote0 = remote
    /\ session = FALSE
    /\ pc = "validate"
    /\ idx = 0
    /\ result = NoResult
    /\ msg = None
    /\ calls = << >>
    /\ run = 1
    /\ prev = << >>

Next ==
    \/ Validate
    \/ OpenSession
    \/ ProbePool
    \/ ProbeMember
    \/ RemoveMember
    \/ DeleteNode
    \/ AddMember
    \/ CreateSet
    \/ UpdateGet
    \/ UpdateSet
    \/ ExitJson
\* one invocation
Spec == Init /\ [][Next]_vars

\* the task run up to MaxRuns times
NextRerun == Next \/ Rerun

SpecRerun == Init /\ [][NextRerun]_vars

\* one invocation that runs on: main() is sequential and every call returns
SpecFair == Init /\ [][Next]_vars /\ WF_vars(Next)

\* one invocation on a BIG-IP that another client writes to as well
NextShared == Next \/ Interfere

SpecShared == Init /\ [][NextShared]_vars

\* ================================================================ claims
WriteOps == {"AddMember", "RemoveMember", "DeleteNodeAddress", "Set"}

\* the write calls among cs
Writes(cs) == SelectSeq(cs, LAMBDA c : c.op \in WriteOps)

\* the calls of cs with operation op
CallsOf(cs, op) == SelectSeq(cs, LAMBDA c : c.op = op)

\* C1: idempotence.  In a run that follows a completed non-dry run with the
\* same input no write call is issued, and when it completes it reports
\* changed=false.
C1_Idempotent ==
    (run >= 2 /\ prev[run - 1].pc = "done" /\ ~prev[run - 1].check_mode)
        => /\ Writes(calls) = << >>
           /\ remote = remote0
           /\ pc = "done" => result = Changed(FALSE)

\* a second run has completed after a first, non-dry run that created the
\* member and wrote an attribute
C1_Witness ==
    /\ run = 2 /\ pc = "done"
    /\ prev[1].pc = "done" /\ ~prev[1].check_mode
    /\ prev[1].result.changed
    /\ Len(Writes(prev[1].calls)) >= 2

\* C2: dry run.  A dry run issues no write call and leaves the BIG-IP as it
\* found it; and when the run for real that follows a completed dry run
\* completes having issued a write, it reports the changed value the dry run
\* reported.
C2_DryRun ==
    /\ check_mode => Writes(calls) = << >> /\ remote = remote0
    /\ (run >= 2 /\ prev[run - 1].pc = "done" /\ prev[run - 1].check_mode
          /\ ~check_mode /\ pc = "done" /\ Writes(calls) # << >>)
        => /\ result.changed = prev[run - 1].result.changed
           /\ prev[run - 1].remote0 = remote0

\* the run for real after a dry run has completed with two writes, on the
\* update path
C2_Witness ==
    /\ run = 2 /\ pc = "done" /\ ~check_mode
    /\ prev[1].pc = "done" /\ prev[1].check_mode
    /\ remote0.member /\ input.state = "present"
    /\ Len(Writes(calls)) = 2

\* C3: a pool probe answered "was not found" ends the invocation at once: it
\* has failed, the probe is its only remote call, and no result was produced.
C3_MissingPool ==
    (calls # << >> /\ calls[1].op = "GetPoolStatus" /\ calls[1].reply = NotFoundMsg)
        => /\ pc = "failed"
           /\ msg = Some(MsgNoPool)
           /\ Len(calls) = 1
           /\ result = NoResult

C3_Witness ==
    /\ pc = "failed"
    /\ calls # << >> /\ calls[1].reply = NotFoundMsg
    /\ ~remote.pool
\* the calls cs without their replies
Proj(cs) == [i \in 1..Len(cs) |-> << cs[i].op, cs[i].attr >>]

\* the calls issued after the two probes
AfterProbes == SubSeq(calls, 3, Len(calls))

\* the member probe of this run was answered
MemberProbed(reply) ==
    Len(calls) >= 2 /\ calls[2].op = "GetMemberStatus" /\ calls[2].reply = reply

IsPrefix(s, t) == Len(s) <= Len(t) /\ s = SubSeq(t, 1, Len(s))

\* the order of the attribute writes as the specification gives it
C4_Order ==
    << "connection_limit", "description", "rate_limit", "ratio",
       "session_state", "monitor_state", "priority_group" >>

C4_SuppliedInOrder == SelectSeq(C4_Order, LAMBDA a : input[a] # None)

C4_Expected ==
    << << "AddMember", "-" >> >>
        \o [i \in 1..Len(C4_SuppliedInOrder) |-> << "Set", C4_SuppliedInOrder[i] >>]

\* C4 as claimed: whenever target=present and the member probe reports the
\* member absent, a completed invocation has issued AddMember and then one
\* Set per supplied attribute in the fixed order, and nothing else, and
\* reports changed=true.
C4_Original ==
    (input.state = "present" /\ MemberProbed(NotFoundMsg) /\ pc = "done")
        => /\ Proj(AfterProbes) = C4_Expected
           /\ result = Changed(TRUE)

\* C4 as amended: the same outside a dry run; the calls issued so far are at
\* every moment a prefix of AddMember and the Sets in order, each but the last
\* answered ok.  In a dry run no call follows the probe and the result is
\* changed=true.
C4_Creation ==
    (input.state = "present" /\ MemberProbed(NotFoundMsg))
        => IF check_mode
           THEN AfterProbes = << >> /\ pc \in {"exit_json", "done"} /\ result = Changed(TRUE)
           ELSE /\ IsPrefix(Proj(AfterProbes), C4_Expected)
                /\ \A i \in 3..(Len(calls) - 1) : calls[i].reply = "ok"
                /\ pc = "done" => /\ Proj(AfterProbes) = C4_Expected
                                  /\ result = Changed(TRUE)

\* a creation with two attributes has completed
C4_Witness ==
    /\ input.state = "present" /\ MemberProbed(NotFoundMsg)
    /\ ~check_mode /\ pc = "done"
    /\ Len(AfterProbes) = 3

\* the status token that stands for "forced" in each subsystem
ForcedToken(a) ==
    IF a = "session_state" THEN "SESSION_STATUS_FORCED_DISABLED"
    ELSE "MONITOR_STATUS_FORCED_DOWN"

\* the decision table: intent=enabled against the forced status, or
\* intent=disabled against any other status
Table(a) ==
    \/ input[a] = Some("enabled") /\ remote0.attrs[a] = ForcedToken(a)
    \/ input[a] = Some("disabled") /\ remote0.attrs[a] # ForcedToken(a)

HasCall(op, a) == \E i \in 1..Len(calls) : calls[i].op = op /\ calls[i].attr = a

UpdatePath == input.state = "present" /\ MemberProbed("ok")

\* C5: on the update path a state attribute is written only when the table
\* says so; a completed non-dry run has written it exactly when the table says
\* so; a completed run reports changed=true when the table says so for a
\* supplied state, and, when no scalar attribute is supplied, only then.
C5_StateTable ==
    UpdatePath =>
        /\ \A a \in StateAttrs :
             input[a] # None =>
               /\ HasCall("Set", a) => Table(a) /\ ~check_mode
               /\ (pc = "done" /\ ~check_mode) => (HasCall("Set", a) <=> Table(a))
               /\ (pc = "done" /\ Table(a)) => result.changed
        /\ (pc = "done" /\ \A a \in ScalarAttrs : input[a] = None)
             => (result.changed <=> \E a \in StateAttrs : Table(a))

\* both states supplied on a completed update: the session state is written
\* (enabled against forced_disabled), the monitor state is left alone
\* (enabled against a plain down)
C5_Witness ==
    /\ UpdatePath /\ pc = "done" /\ ~check_mode
    /\ input.session_state = Some("enabled")
    /\ remote0.attrs.session_state = "SESSION_STATUS_FORCED_DISABLED"
    /\ input.monitor_state = Some("enabled")
    /\ remote0.attrs.monitor_state = "MONITOR_STATUS_DOWN"
    /\ HasCall("Set", "session_state") /\ ~HasCall("Set", "monitor_state")
    /\ result.changed

C6_Case ==
    /\ UpdatePath
    /\ input.session_state = Some("enabled")
    /\ remote0.attrs.session_state = "SESSION_STATUS_FORCED_DISABLED"

C6_SessionSets == SelectSeq(calls, LAMBDA c : c.op = "Set" /\ c.attr = "session_state")

\* C6 as claimed: target=present, member exists, admissionState=enabled
\* against a live forced_disabled: a completed invocation has issued exactly
\* one SetAdmissionState call and reports changed=true.
C6_Original ==
    (C6_Case /\ pc = "done") => Len(C6_SessionSets) = 1 /\ result.changed

\* C6 as amended: so it is outside a dry run; a dry run issues no
\* SetAdmissionState call and reports changed=true.  No run issues the call
\* twice.
C6_EnableForced ==
    C6_Case =>
        /\ Len(C6_SessionSets) <= 1
        /\ pc = "done" => /\ result.changed
                          /\ Len(C6_SessionSets) = IF check_mode THEN 0 ELSE 1

C6_Witness ==
    /\ C6_Case /\ pc = "done" /\ ~check_mode
    /\ Len(C6_SessionSets) = 1
    /\ remote.attrs.session_state = "SESSION_STATUS_ENABLED"

C7_Case ==
    \E i \in 1..Len(calls) :
        calls[i].op = "DeleteNodeAddress" /\ calls[i].reply = ReferencedMsg

\* C7: a node deletion refused because the node is still referenced does not
\* fail the invocation: the result is {changed: true, deleted: false}, the
\* member is gone from the pool and the node is still there.
C7_StillReferenced ==
    C7_Case =>
        /\ pc \in {"exit_json", "done"}
        /\ result = [changed |-> TRUE, deleted |-> FALSE]
        /\ remote0.member /\ ~remote.member /\ remote.node

C7_Witness ==
    /\ C7_Case /\ pc = "done"
    /\ input.state = "absent" /\ ~input.preserve_node

\* C8: a Get or a Set is issued only for an attribute the caller supplied, and
\* an attribute left unset has at every moment the value it had when the run
\* started.
C8_SuppliedOnly ==
    /\ \A i \in 1..Len(calls) :
         calls[i].op \in {"Get", "Set"} => input[calls[i].attr] # None
    /\ \A a \in Attrs :
         (input[a] = None /\ remote0.member /\ remote.member)
            => remote.attrs[a] = remote0.attrs[a]

\* an update that read two attributes and wrote one has completed, other
\* attributes left unset
C8_Witness ==
    /\ UpdatePath /\ pc = "done"
    /\ Len(CallsOf(calls, "Get")) = 2
    /\ Len(CallsOf(calls, "Set")) = 1
    /\ \E a \in Attrs : input[a] = None

\* C9: target=absent and a member probe answered "was not found": the probe is
\* the last call, nothing is written, and the result is {changed: false}.
C9_AbsentNoop ==
    (input.state = "absent" /\ MemberProbed(NotFoundMsg))
        => /\ pc \in {"exit_json", "done"}
           /\ result = Changed(FALSE)
           /\ AfterProbes = << >>
           /\ remote = remote0

C9_Witness ==
    /\ input.state = "absent" /\ MemberProbed(NotFoundMsg)
    /\ pc = "done" /\ ~check_mode /\ ~input.preserve_node

C10_HostGiven == input.host # None /\ input.host # Some("")

C10_Invalid ==
    \/ input.port # None /\ (Val(input.port) < 0 \/ Val(input.port) > 65535)
    \/ C10_HostGiven /\ input.port = None
    \/ input.port # None /\ ~C10_HostGiven

\* C10: with a port outside 0..65535, a host without a port or a port without
\* a host, the invocation fails in validation: the session is never opened and
\* no remote call is issued.
C10_ValidationFirst ==
    C10_Invalid =>
        /\ ~session
        /\ calls = << >>
        /\ pc \in {"validate", "failed"}
        /\ pc = "failed" => msg \in {Some(MsgHostPort), Some(MsgPortRange)}

\* port 70000 with a host has been refused
C10_Witness ==
    /\ input.port = Some(70000) /\ input.host = Some("h")
    /\ pc = "failed" /\ msg = Some(MsgPortRange)

\* ------------------------------------------------------------------ C11

\* a reply that is an error, the probes' "was not found" and the node
\* deletion's "is referenced" apart
C11_Fatal(c) ==
    /\ c.reply # "ok"
    /\ ~(c.op \in {"GetPoolStatus", "GetMemberStatus"} /\ c.reply = NotFoundMsg)
    /\ ~(c.op = "DeleteNodeAddress" /\ c.reply = ReferencedMsg)

\* the failure message that carries the error e
C11_Message(e) ==
    IF e = "other" THEN "received exception: other"
    ELSE IF e = "was not found" THEN "received exception: was not found"
    ELSE "received exception: is referenced by a member of pool"

\* the write c, which succeeded, is still applied on the BIG-IP
C11_Applied(c) ==
    CASE c.op = "AddMember" -> remote.member
      [] c.op = "RemoveMember" -> ~remote.member
      [] c.op = "DeleteNodeAddress" -> ~remote.node
      [] c.op = "Set" /\ c.attr \in ScalarAttrs -> remote.attrs[c.attr] = Val(input[c.attr])
      [] c.op = "Set" /\ c.attr \in StateAttrs ->
            (remote.attrs[c.attr] = ForcedToken(c.attr)) <=> (input[c.attr] = Some("disabled"))
      [] OTHER -> TRUE

\* C11: abort without rollback.  A remote call that fails with an error other
\* than "was not found" on a probe or "is referenced" on the node deletion is
\* the last call of the invocation, the invocation has failed with a message
\* that carries the error, and every write that succeeded before it is still
\* applied on the BIG-IP.
C11_AbortNoRollback ==
    \A i \in 1..Len(calls) :
        C11_Fatal(calls[i]) =>
            /\ i = Len(calls)
            /\ pc = "failed"
            /\ msg = Some(C11_Message(calls[i].reply))
            /\ \A j \in 1..(i - 1) : calls[j].reply = "ok" => C11_Applied(calls[j])

\* an update has failed at its second write: the first write is on the BIG-IP
C11_Witness ==
    /\ pc = "failed"
    /\ Len(calls) >= 5
    /\ C11_Fatal(calls[Len(calls)])
    /\ calls[Len(calls)].op = "Set"
    /\ \E j \in 1..(Len(calls) - 1) : calls[j].op = "Set" /\ calls[j].reply = "ok"
    /\ remote # remote0

\* ------------------------------------------------------------------ C12

\* the run recorded as p was for real, had target=present and failed after a
\* write of its own had succeeded
C12_PartFailed(p) ==
    /\ p.pc = "failed" /\ ~p.check_mode /\ input.state = "present"
    /\ \E i \in 1..Len(p.calls) : p.calls[i].op \in WriteOps /\ p.calls[i].reply = "ok"

\* the attribute a holds the desired value: the number given, or a status that
\* is the forced one exactly when the intent is "disabled"
C12_AtDesired(a) ==
    IF a \in ScalarAttrs THEN remote.attrs[a] = Val(input[a])
    ELSE (remote.attrs[a] = ForcedToken(a)) <=> (input[a] = Some("disabled"))

\* C12: convergence on the next run.  After a run for real with target=present
\* that failed partway, a later run for real with the same input that completes
\* leaves the member in the pool with every supplied attribute at its desired
\* value, and the run after that one, when it completes, reports changed=false.
C12_Convergence ==
    /\ ( /\ \E k \in 1..(run - 1) : C12_PartFailed(prev[k])
         /\ ~check_mode /\ pc = "done" )
            => /\ remote.member
               /\ \A a \in Attrs : input[a] # None => C12_AtDesired(a)
    /\ ( /\ \E k \in 1..(run - 2) : C12_PartFailed(prev[k])
         /\ run >= 3 /\ prev[run - 1].pc = "done" /\ ~prev[run - 1].check_mode
         /\ pc = "done" )
            => result = Changed(FALSE) /\ Writes(calls) = << >>

\* a creation failed after AddMember and one attribute write, the second run
\* wrote what was missing and the third run found nothing to change
C12_Witness ==
    /\ run = 3 /\ pc = "done"
    /\ C12_PartFailed(prev[1])
    /\ Len(SelectSeq(prev[1].calls, LAMBDA c : c.op \in WriteOps /\ c.reply = "ok")) = 2
    /\ prev[2].pc = "done" /\ ~prev[2].check_mode /\ prev[2].result.changed
    /\ Writes(prev[2].calls) # << >>
    /\ result = Changed(FALSE)

\* ------------------------------------------------------------------ C13

\* a removal for real of a member that exists
C13_Case == input.state = "absent" /\ MemberProbed("ok") /\ ~check_mode

\* C13: the removal sequence.  In a removal for real of a member that exists
\* the calls after the probes are RemoveMember and then, at most,
\* DeleteNodeAddress, each once; once the invocation has ended,
\* DeleteNodeAddress has been issued exactly when preserve_node is false and
\* RemoveMember succeeded; with preserve_node=true it is never issued and the
\* result is {changed: true} with no deleted field; and a DeleteNodeAddress
\* that fails with anything but "is referenced" fails the invocation.
C13_RemovalSequence ==
    C13_Case =>
        LET rm == CallsOf(calls, "RemoveMember")
            dn == CallsOf(calls, "DeleteNodeAddress")
        IN /\ IsPrefix(Proj(AfterProbes),
                       << << "RemoveMember", "-" >>, << "DeleteNodeAddress", "-" >> >>)
           /\ pc # "remove_pool_member" => Len(rm) = 1
           /\ pc \in {"exit_json", "done", "failed"}
                => (Len(dn) = 1 <=> (~input.preserve_node /\ rm[1].reply = "ok"))
           /\ input.preserve_node
                => Len(dn) = 0 /\ (pc \in {"exit_json", "done"} => result = Changed(TRUE))
           /\ \A i \in 1..Len(dn) :
                dn[i].reply \notin {"ok", ReferencedMsg} => pc = "failed"

\* the member was removed and its node deleted
C13_Witness ==
    /\ C13_Case /\ pc = "done" /\ ~input.preserve_node
    /\ Len(calls) = 4
    /\ calls[3].op = "RemoveMember" /\ calls[4].op = "DeleteNodeAddress"
    /\ calls[4].reply = "ok"
    /\ ~remote.member /\ ~remote.node

\* ------------------------------------------------------------------ C14

\* the diff outcome of a supplied attribute: a number differs from the one on
\* the BIG-IP, a state follows the table
C14_Diff(a) ==
    IF a \in ScalarAttrs THEN Val(input[a]) # remote0.attrs[a] ELSE Table(a)

C14_Sets(a) == SelectSeq(calls, LAMBDA c : c.op = "Set" /\ c.attr = a)

\* C14: on the update path a completed invocation reports as changed the
\* logical OR of the diff outcomes of the supplied attributes and nothing
\* else; a run for real has issued one Set call for each supplied attribute
\* whose diff outcome is true and none for any other attribute.
C14_UpdateChanged ==
    (UpdatePath /\ pc = "done") =>
        /\ result = Changed(\E a \in Attrs : input[a] # None /\ C14_Diff(a))
        /\ ~check_mode =>
              \A a \in Attrs :
                  Len(C14_Sets(a)) = IF input[a] # None /\ C14_Diff(a) THEN 1 ELSE 0

\* an update for real of two supplied attributes, one that differed and one
\* that did not
C14_Witness ==
    /\ UpdatePath /\ pc = "done" /\ ~check_mode
    /\ \E a, b \in Attrs :
          /\ input[a] # None /\ C14_Diff(a) /\ Len(C14_Sets(a)) = 1
          /\ input[b] # None /\ ~C14_Diff(b) /\ Len(C14_Sets(b)) = 0
    /\ result = Changed(TRUE)

\* ------------------------------------------------------------------ C15

\* no remote operation is issued twice, an attribute's Get and Set counting
\* as operations of their own
C15_AtMostOnce ==
    \A i, j \in 1..Len(calls) :
        (calls[i].op = calls[j].op /\ calls[i].attr = calls[j].attr) => i = j

\* no attribute is read after it was written
C15_NoReadBack ==
    \A i, j \in 1..Len(calls) :
        (calls[i].op = "Set" /\ calls[j].op = "Get" /\ calls[i].attr = calls[j].attr)
            => j < i

\* the invocation has ended: with a result record, or failed with a message
C15_Ended ==
    \/ pc = "done" /\ "changed" \in DOMAIN result /\ msg = None
    \/ pc = "failed" /\ msg # None

\* C15: no retry and termination.  Within an invocation no remote operation
\* is issued twice, whether it succeeded or failed, and no attribute is read
\* after it was written; and every invocation ends, with a result record or
\* with a failure.
C15_NoRetryTerminates ==
    /\ [](C15_AtMostOnce /\ C15_NoReadBack)
    /\ [](pc \in {"done", "failed"} => C15_Ended)
    /\ <>(pc \in {"done", "failed"})

\* an update has ended after reading two attributes and writing both
C15_Witness ==
    /\ pc = "done"
    /\ Len(CallsOf(calls, "Get")) = 2
    /\ Len(CallsOf(calls, "Set")) = 2
    /\ C15_Ended

\* ------------------------------------------------------------------ C16

\* a call with operation op and answer reply was issued before call j
C16_Before(j, op, reply) ==
    \E i \in 1..(j - 1) : calls[i].op = op /\ calls[i].reply = reply

\* C16: member before attribute.  An attribute's Get or Set and RemoveMember
\* are issued only after the member probe answered "exists" or AddMember
\* succeeded in this invocation, AddMember only after the member probe
\* answered "was not found", the member probe only after the pool probe
\* answered "exists"; and the member is never in a pool that does not exist.
C16_MemberFirst ==
    /\ \A j \in 1..Len(calls) :
          /\ calls[j].op \in {"Get", "Set", "RemoveMember"}
                => C16_Before(j, "GetMemberStatus", "ok") \/ C16_Before(j, "AddMember", "ok")
          /\ calls[j].op = "AddMember" => C16_Before(j, "GetMemberStatus", NotFoundMsg)
          /\ calls[j].op = "GetMemberStatus" => C16_Before(j, "GetPoolStatus", "ok")
    /\ remote.member => remote.pool

\* the member was added after the probe found it missing, and an attribute
\* written after that
C16_Witness ==
    /\ pc = "done" /\ Len(calls) >= 4
    /\ calls[1].op = "GetPoolStatus" /\ calls[1].reply = "ok"
    /\ calls[2].op = "GetMemberStatus" /\ calls[2].reply = NotFoundMsg
    /\ calls[3].op = "AddMember" /\ calls[3].reply = "ok"
    /\ calls[4].op = "Set"
    /\ remote.member /\ ~remote0.member

\* ------------------------------------------------------------------ C17

\* the call just answered was answered "was not found"
C17_NotFoundLast == calls # << >> /\ calls[Len(calls)].reply = NotFoundMsg

\* C17 as claimed: no call answered "was not found" fails the invocation, be
\* it the pool probe, the member probe or a later call on the member.
C17_Original == C17_NotFoundLast => pc # "failed"

\* C17: "was not found" on the member probe is a branching decision and does
\* not fail the invocation; on the pool probe it fails the invocation with
\* "pool does not exist"; on any later call on the member it fails the
\* invocation as every other remote error does.
C17_NotFound ==
    C17_NotFoundLast =>
        LET c == calls[Len(calls)]
        IN CASE c.op = "GetMemberStatus" ->
                    /\ msg = None
                    /\ pc \in IF input.state = "absent" \/ check_mode
                             THEN {"exit_json", "done"} ELSE {"add_pool_member"}
             [] c.op = "GetPoolStatus" ->
                    pc = "failed" /\ msg = Some("pool does not exist")
             [] OTHER ->
                    pc = "failed" /\ msg = Some("received exception: was not found")

\* the member probe answered "was not found" and the invocation went on to
\* add the member and completed
C17_Witness ==
    /\ pc = "done" /\ input.state = "present" /\ MemberProbed(NotFoundMsg)
    /\ HasCall("AddMember", "-")
    /\ result = Changed(TRUE) /\ msg = None

\* ------------------------------------------------------------------ C18

\* the member was in the pool when the invocation started
C18_MemberExisted == remote0.pool /\ remote0.member

\* the answer to the node deletion of this invocation
C18_DeleteReply == CallsOf(calls, "DeleteNodeAddress")[1].reply

\* C18: the shape of the result record.  A completed invocation's result has
\* a deleted field exactly when target=absent, the member existed, the run is
\* for real and preserve_node is false; with the field, changed is true and
\* deleted is true exactly when DeleteNodeAddress succeeded, false exactly
\* when it was refused with "is referenced"; without it the result is the
\* changed field alone, and a dry-run removal reports {changed: true}.
C18_ResultShape ==
    pc = "done" =>
        /\ "changed" \in DOMAIN result
        /\ ("deleted" \in DOMAIN result)
             <=> ( /\ input.state = "absent" /\ C18_MemberExisted
                   /\ ~check_mode /\ ~input.preserve_node )
        /\ "deleted" \in DOMAIN result =>
              /\ result.changed
              /\ Len(CallsOf(calls, "DeleteNodeAddress")) = 1
              /\ result.deleted <=> C18_DeleteReply = "ok"
              /\ ~result.deleted <=> C18_DeleteReply = ReferencedMsg
        /\ "deleted" \notin DOMAIN result => DOMAIN result = {"changed"}
        /\ (input.state = "absent" /\ C18_MemberExisted /\ check_mode)
              => result = Changed(TRUE)

\* a removal for real has reported {changed: true, deleted: true}
C18_Witness ==
    /\ pc = "done"
    /\ result = [changed |-> TRUE, deleted |-> TRUE]
    /\ C18_MemberExisted /\ ~remote.node

\* ------------------------------------------------------------------ C19

\* C19: the branch frame.  An invocation with target=absent issues no
\* AddMember and no attribute Get or Set, and as long as the member is in the
\* pool its attributes are as they were; an invocation with target=present
\* issues no RemoveMember and no DeleteNodeAddress and removes neither a
\* member nor a node that was there; and every call is keyed by the pool, the
\* address and the port that main() made of its input, and by nothing else.
C19_BranchFrame ==
    /\ input.state = "absent" =>
          /\ \A i \in 1..Len(calls) : calls[i].op \notin {"AddMember", "Get", "Set"}
          /\ remote.member => remote.attrs = remote0.attrs
          /\ remote.pool = remote0.pool
    /\ input.state = "present" =>
          /\ \A i \in 1..Len(calls) :
                calls[i].op \notin {"RemoveMember", "DeleteNodeAddress"}
          /\ remote0.member => remote.member
          /\ remote0.node => remote.node
          /\ remote.pool = remote0.pool
    /\ \A i \in 1..Len(calls) :
          /\ calls[i].key.pool \in {None, Some(pool)}
          /\ calls[i].key.address \in {None, Some(address)}
          /\ calls[i].key.port \in {None, input.port}
          /\ calls[i].op # "DeleteNodeAddress" => calls[i].key.pool # None
          /\ calls[i].op \notin {"GetPoolStatus", "DeleteNodeAddress"}
                => calls[i].key.address # None /\ calls[i].key.port # None
          /\ calls[i].op = "DeleteNodeAddress" => calls[i].key.address # None

\* a removal with attributes supplied has deleted the node: the attributes
\* were neither read nor written
C19_Witness ==
    /\ input.state = "absent" /\ pc = "done"
    /\ \E a \in Attrs : input[a] # None
    /\ HasCall("RemoveMember", "-") /\ HasCall("DeleteNodeAddress", "-")
    /\ Len(calls) = 4


====
